---- MODULE Spec2Model ----
(***************************************************************************)
(* A model of the push-based Observable core: cancellation chaining        *)
(* (util/chainAbort.ts), SafeSubscriber / Observable and its flattening    *)
(* operators (Observable.ts) and the multicast Subject (Subject.ts).       *)
(*                                                                         *)
(* The program is single-threaded: one step of the model is one call made  *)
(* by the outside world (a producer pushing an event, a caller aborting a  *)
(* controller, a promise settling) together with the whole synchronous     *)
(* cascade of calls it causes.  The cascade is computed by the recursive   *)
(* operators below over a record m holding the heap.                       *)
(***************************************************************************)
EXTENDS Naturals, Sequences, FiniteSets

VARIABLES
  aborted,        \* aborted[t]: AbortSignal.aborted of controller t
  listeners,      \* listeners[t]: the "abort" listeners of signal t, in registration order
  abortEvents,    \* abortEvents[t]: how many times the "abort" event was dispatched on t
  closed,         \* closed[s]: SafeSubscriber._closed
  dest,           \* dest[s]: SafeSubscriber._destination (a description of the observer)
  ctl,            \* ctl[s]: SafeSubscriber._abortController
  term,           \* term[s]: the terminal event s handed to its destination ("" if none)
  producers,      \* the (subscriber, signal) pairs handed to external producers
  log,            \* the events delivered to the consumers' observers, in order
  index,          \* operator closure variable `index`
  active,         \* mergeMap closure variable `active`
  outerComplete,  \* flattening operators' closure variable `outerComplete`
  buffer,         \* concatMap closure variable `buffer`
  innerAbortController, \* switchMap closure variable (0 = void 0)
  subscribers,    \* Subject._subscribers
  subjClosed,     \* Subject._closed
  i_,             \* take / scan closure variable `i`
  state,          \* scan closure variable `state`
  stack,          \* the observer handlers currently executing (SafeSubscriber stepwise)
  has,            \* the handlers the consumer's partial observer provides
  abortOn,        \* <<k, v>>: consumer k's next handler aborts its own controller on value v
  subscribeOn,    \* <<k, v>>: consumer k's next handler subscribes a new consumer to the Subject on value v
  input           \* the arguments the pipeline of a run was built from

vars == <<aborted, listeners, abortEvents, closed, dest, ctl, term, producers, log,
          index, active, outerComplete, buffer, innerAbortController,
          subscribers, subjClosed, i_, state, stack, has, abortOn, subscribeOn, input>>

\* ---------------------------------------------------------------- bounds
MaxTokens == 4      \* controllers created in the chaining scenario
MaxPush == 3        \* values the sources of a flattening scenario push, all together
MaxCalls == 4       \* calls made on the subscriber in the stepwise scenario
MaxDepth == 2       \* nesting of re-entrant handler calls
MaxSubs == 2        \* subscriptions made on the Subject
MaxLog == 3         \* events delivered in the Subject scenario
MaxLen == 3         \* length of the source sequence of a filter/take or scan run
MaxValue == 3       \* largest element of such a source sequence
MaxCount == 2       \* largest count given to take

Handlers == {"next", "error", "complete"}

\* ---------------------------------------------------------------- the heap
Cur ==
  [aborted |-> aborted, listeners |-> listeners, abortEvents |-> abortEvents,
   closed |-> closed, dest |-> dest, ctl |-> ctl, term |-> term,
   producers |-> producers, log |-> log, index |-> index, active |-> active,
   outerComplete |-> outerComplete, buffer |-> buffer,
   innerAbortController |-> innerAbortController,
   subscribers |-> subscribers, subjClosed |-> subjClosed, i_ |-> i_, state |-> state]

Set(m) ==
  /\ aborted' = m.aborted
  /\ listeners' = m.listeners
  /\ abortEvents' = m.abortEvents
  /\ closed' = m.closed
  /\ dest' = m.dest
  /\ ctl' = m.ctl
  /\ term' = m.term
  /\ producers' = m.producers
  /\ log' = m.log
  /\ index' = m.index
  /\ active' = m.active
  /\ outerComplete' = m.outerComplete
  /\ buffer' = m.buffer
  /\ innerAbortController' = m.innerAbortController
  /\ subscribers' = m.subscribers
  /\ subjClosed' = m.subjClosed
  /\ i_' = m.i_
  /\ state' = m.state

Start(m) ==
  /\ aborted = m.aborted
  /\ listeners = m.listeners
  /\ abortEvents = m.abortEvents
  /\ closed = m.closed
  /\ dest = m.dest
  /\ ctl = m.ctl
  /\ term = m.term
  /\ producers = m.producers
  /\ log = m.log
  /\ index = m.index
  /\ active = m.active
  /\ outerComplete = m.outerComplete
  /\ buffer = m.buffer
  /\ innerAbortController = m.innerAbortController
  /\ subscribers = m.subscribers
  /\ subjClosed = m.subjClosed
  /\ i_ = m.i_
  /\ state = m.state

Empty ==
  [aborted |-> <<>>, listeners |-> <<>>, abortEvents |-> <<>>,
   closed |-> <<>>, dest |-> <<>>, ctl |-> <<>>, term |-> <<>>,
   producers |-> <<>>, log |-> <<>>, index |-> 0, active |-> 0,
   outerComplete |-> FALSE, buffer |-> <<>>, innerAbortController |-> 0,
   subscribers |-> <<>>, subjClosed |-> FALSE, i_ |-> 0, state |-> 0]

Tokens == 1..Len(aborted)
Subs == 1..Len(closed)

RECURSIVE Abort(_, _), Dispatch(_, _, _, _), Invoke(_, _)
RECURSIVE SubNext(_, _, _), SubError(_, _, _), SubComplete(_, _)
RECURSIVE DestNext(_, _, _), DestError(_, _, _), DestComplete(_, _)
RECURSIVE Subscribe(_, _, _, _), ObservableInit(_, _, _, _)
RECURSIVE Drain(_, _, _, _, _), CheckSubscribe(_, _)
RECURSIVE ForOfSubscribers(_, _, _), ShiftAll(_, _, _)

\* ---------------------------------------------------------------- AbortController
Listener(kind, a, b) == [kind |-> kind, a |-> a, b |-> b]

HasListener(ls, l) == \E i \in 1..Len(ls) : ls[i] = l

RemoveListener(ls, l) == SelectSeq(ls, LAMBDA x : x # l)

\* new AbortController()
NewController(m) ==
  [m EXCEPT !.aborted = Append(@, FALSE), !.listeners = Append(@, <<>>),
            !.abortEvents = Append(@, 0)]

\* signal.addEventListener("abort", l)
AddListener(m, t, l) ==
  IF HasListener(m.listeners[t], l) THEN m
  ELSE [m EXCEPT !.listeners[t] = Append(@, l)]

\* chainAbort(parentSignal, childController)
ChainAbort(m, parent, child) ==
  LET m1 == AddListener(m, child, Listener("unchain", parent, child))
  IN AddListener(m1, parent, Listener("abortChild", child, 0))

\* Subject: the abort handler registered by the Subject's subscription procedure
Unsubscribe(m, s) ==
  [m EXCEPT !.subscribers = SelectSeq(@, LAMBDA x : x # s)]

\* one listener called by the "abort" event
Invoke(m, l) ==
  CASE l.kind = "abortChild" -> Abort(m, l.a)
    [] l.kind = "unchain" ->
         [m EXCEPT !.listeners[l.a] = RemoveListener(@, Listener("abortChild", l.b, 0))]
    [] l.kind = "unsubscribe" -> Unsubscribe(m, l.a)
    [] OTHER -> m

\* the "abort" event: the listeners registered when it starts, in order, a
\* listener removed meanwhile being skipped
Dispatch(m, t, snap, i) ==
  IF i > Len(snap) THEN m
  ELSE IF ~HasListener(m.listeners[t], snap[i]) THEN Dispatch(m, t, snap, i + 1)
  ELSE Dispatch(Invoke(m, snap[i]), t, snap, i + 1)

\* controller.abort(): nothing when already aborted
Abort(m, t) ==
  IF m.aborted[t] THEN m
  ELSE LET m1 == [m EXCEPT !.aborted[t] = TRUE, !.abortEvents[t] = @ + 1]
       IN Dispatch(m1, t, m1.listeners[t], 1)

\* ---------------------------------------------------------------- the consumer
Event(k, ev, v, m, sig) ==
  [k |-> k, ev |-> ev, v |-> v, late |-> (sig # 0 /\ m.aborted[sig])]

Dest(kind, down, sig, k) == [kind |-> kind, down |-> down, sig |-> sig, k |-> k]

\* subject.subscribe(observer, controller.signal) by a consumer with a
\* controller of its own
SubscribeConsumer(m) ==
  LET m1 == NewController(m)
      own == Len(m1.aborted)
  IN Subscribe(m1, [kind |-> "subject"], Dest("sink", 0, own, Len(m.closed) + 1), own)

\* the consumer's observer: it records what it is given; its next handler may
\* subscribe one more consumer to the Subject, and may abort the controller
\* whose signal it passed to subscribe
SinkNext(m, d, v) ==
  LET m1 == [m EXCEPT !.log = Append(@, Event(d.k, "next", v, m, d.sig))]
      m2 == IF <<d.k, v>> \in subscribeOn /\ Len(m1.closed) < MaxSubs
            THEN SubscribeConsumer(m1) ELSE m1
  IN IF <<d.k, v>> \in abortOn /\ d.sig # 0 THEN Abort(m2, d.sig) ELSE m2

SinkError(m, d, e) ==
  [m EXCEPT !.log = Append(@, Event(d.k, "error", e, m, d.sig))]

SinkComplete(m, d) ==
  [m EXCEPT !.log = Append(@, Event(d.k, "complete", 0, m, d.sig))]

\* hostReportError(err)
HostReportError(m, e) ==
  [m EXCEPT !.log = Append(@, [k |-> 0, ev |-> "hostReportError", v |-> e, late |-> FALSE])]

\* typeof _destination.<handler> === "function": the consumer's observer is
\* partial, takeUntil's observer of the notifier has no complete handler
HasHandler(d, h) ==
  CASE d.kind = "sink" -> h \in has
    [] d.kind = "notifier" -> h # "complete"
    [] OTHER -> TRUE

\* ---------------------------------------------------------------- SafeSubscriber
SubNext(m, s, v) ==
  IF ~m.closed[s]
  THEN IF HasHandler(m.dest[s], "next") THEN DestNext(m, m.dest[s], v) ELSE m
  ELSE m

SubError(m, s, e) ==
  IF ~m.closed[s]
  THEN LET m1 == [m EXCEPT !.closed[s] = TRUE, !.term[s] = "error"]
           m2 == IF HasHandler(m.dest[s], "error") THEN DestError(m1, m.dest[s], e)
                 ELSE HostReportError(m1, e)
       IN Abort(m2, m.ctl[s])
  ELSE m

SubComplete(m, s) ==
  IF ~m.closed[s]
  THEN LET m1 == [m EXCEPT !.closed[s] = TRUE, !.term[s] = "complete"]
           m2 == IF HasHandler(m.dest[s], "complete") THEN DestComplete(m1, m.dest[s])
                 ELSE m1
       IN Abort(m2, m.ctl[s])
  ELSE m

\* ---------------------------------------------------------------- the user callback
ThrowVal == 0       \* the callback throws for this source value
SyncVal == 3        \* the callback returns Observable.of(x) for this source value
CallbackErr == 99   \* the exception the callback throws
SourceErr == 90     \* the error a source pushes (plus the inner's number for an inner)

\* callback(value, index) of mergeMap/concatMap/switchMap: it throws, returns
\* Observable.of(one value) or returns a source that pushes later (one that
\* observes its signal for value 1, one that ignores it for value 2).  A value
\* of the inner made for the index-th source value is 10*(index+1) + its rank.
Callback(v, idx) ==
  CASE v = ThrowVal -> [kind |-> "throw", err |-> CallbackErr]
    [] v = SyncVal -> [kind |-> "from", items |-> <<10 * (idx + 1) + 1>>]
    [] OTHER -> [kind |-> "producer", role |-> "inner", obeys |-> (v = 1), k |-> idx + 1]

\* what a call of a user callback does: it throws or it returns a value
Throws(e) == [kind |-> "throw", err |-> e]
Returns(v) == [kind |-> "value", v |-> v]

\* the callback of map: (value) => value + 10
Project(v, idx) == IF v = ThrowVal THEN Throws(CallbackErr) ELSE Returns(v + 10)

\* the callback of filter: (value) => value % p === 0
Predicate(p, v, idx) == IF v = ThrowVal THEN Throws(CallbackErr) ELSE Returns(v % p = 0)

Undefined == 998    \* the value undefined
NaN == 999          \* the value NaN

\* the + of the language on numbers and undefined
Plus(a, b) == IF a \in {Undefined, NaN} \/ b \in {Undefined, NaN} THEN NaN ELSE a + b

\* the callback of scan: (acc, value) => acc + value
Accumulator(acc, v, idx) == IF v = ThrowVal THEN Throws(CallbackErr) ELSE Returns(Plus(acc, v))

\* ---------------------------------------------------------------- map
MapNext(m, d, v) ==
  LET r == Project(v, m.index)
      m1 == [m EXCEPT !.index = @ + 1]
  IN IF r.kind = "throw" THEN SubError(m1, d.down, r.err) ELSE SubNext(m1, d.down, r.v)

\* ---------------------------------------------------------------- filter
\* d.k is the divisor the predicate tests
FilterNext(m, d, v) ==
  LET r == Predicate(d.k, v, m.index)
      m1 == [m EXCEPT !.index = @ + 1]
  IN IF r.kind = "throw" THEN SubError(m1, d.down, r.err)
     ELSE IF r.v THEN SubNext(m1, d.down, v) ELSE m1

\* ---------------------------------------------------------------- take
\* d.k is count
TakeNext(m, d, v) ==
  LET m1 == SubNext(m, d.down, v)
      m2 == [m1 EXCEPT !.i_ = @ + 1]
  IN IF m2.i_ = d.k THEN SubComplete(m2, d.down) ELSE m2

\* ---------------------------------------------------------------- scan
\* d.k is 1 when scan was called with an initial value (hasInit), else 0
ScanNext(m, d, v) ==
  LET idx == m.i_
      m1 == [m EXCEPT !.i_ = @ + 1]
      m2 == IF d.k = 0 /\ idx = 0 THEN SubNext(m1, d.down, v) ELSE m1
      r == Accumulator(m2.state, v, idx)
  IN IF r.kind = "throw" THEN SubError(m2, d.down, r.err)
     ELSE SubNext([m2 EXCEPT !.state = r.v], d.down, r.v)

\* ---------------------------------------------------------------- takeUntil
\* the observer of the notifier; d.k is takeUntil's abortController
NotifierNext(m, d, v) == Abort(SubComplete(m, d.down), d.k)

\* ---------------------------------------------------------------- mergeMap
MergeOuterNext(m, d, v) ==
  LET result == Callback(v, m.index)
      m1 == [m EXCEPT !.index = @ + 1]
  IN IF result.kind = "throw" THEN SubError(m1, d.down, result.err)
     ELSE Subscribe([m1 EXCEPT !.active = @ + 1], result,
                    Dest("mergeInner", d.down, d.sig, m.index + 1), d.sig)

MergeOuterComplete(m, d) ==
  LET m1 == [m EXCEPT !.outerComplete = TRUE]
  IN IF m1.active = 0 THEN SubComplete(m1, d.down) ELSE m1

MergeInnerComplete_ignoresActive(m, d) ==
  LET m1 == [m EXCEPT !.active = @ - 1]
  IN IF m1.outerComplete THEN SubComplete(m1, d.down) ELSE m1

MergeInnerComplete(m, d) ==
  LET m1 == [m EXCEPT !.active = @ - 1]
  IN IF m1.outerComplete /\ m1.active = 0 THEN SubComplete(m1, d.down) ELSE m1

MergeInnerError(m, d, e) == SubError(m, d.down, e)

\* ---------------------------------------------------------------- concatMap
CheckSubscribe(m, d) ==
  IF Len(m.buffer) > 0
  THEN LET value == Head(m.buffer)
           result == Callback(value, m.index)
           m1 == [m EXCEPT !.buffer = Tail(@), !.index = @ + 1]
       IN IF result.kind = "throw" THEN SubError(m1, d.down, result.err)
          ELSE Subscribe(m1, result, Dest("concatInner", d.down, d.sig, m.index + 1), d.sig)
  ELSE m

ConcatOuterNext(m, d, v) ==
  CheckSubscribe([m EXCEPT !.buffer = Append(@, v)], d)

ConcatOuterComplete(m, d) ==
  LET m1 == [m EXCEPT !.outerComplete = TRUE]
  IN IF Len(m1.buffer) = 0 THEN SubComplete(m1, d.down) ELSE m1

ConcatInnerComplete(m, d) ==
  IF m.outerComplete /\ Len(m.buffer) = 0 THEN SubComplete(m, d.down)
  ELSE CheckSubscribe(m, d)

\* ---------------------------------------------------------------- switchMap
SwitchOuterNext(m, d, v) ==
  LET m1 == IF m.innerAbortController # 0
            THEN [Abort(m, m.innerAbortController) EXCEPT !.innerAbortController = 0]
            ELSE m
      m2 == NewController(m1)
      m3 == [ChainAbort(m2, d.sig, Len(m2.aborted))
               EXCEPT !.innerAbortController = Len(m2.aborted)]
      result == Callback(v, m3.index)
      m4 == [m3 EXCEPT !.index = @ + 1]
  IN IF result.kind = "throw" THEN SubError(m4, d.down, result.err)
     ELSE Subscribe(m4, result, Dest("switchInner", d.down, d.sig, m.index + 1), d.sig)

SwitchOuterComplete(m, d) ==
  LET m1 == [m EXCEPT !.outerComplete = TRUE]
  IN IF m1.innerAbortController = 0 THEN SubComplete(m1, d.down) ELSE m1

SwitchInnerComplete(m, d) ==
  LET m1 == [m EXCEPT !.innerAbortController = 0]
  IN IF m1.outerComplete THEN SubComplete(m1, d.down) ELSE m1

\* ---------------------------------------------------------------- observers
\* the observer objects the operators pass to subscribe, by the operator that
\* builds them; d.down is the operator's own subscriber, d.sig its signal
DestNext(m, d, v) ==
  CASE d.kind = "sink" -> SinkNext(m, d, v)
    [] d.kind = "mergeOuter" -> MergeOuterNext(m, d, v)
    [] d.kind = "concatOuter" -> ConcatOuterNext(m, d, v)
    [] d.kind = "switchOuter" -> SwitchOuterNext(m, d, v)
    [] d.kind \in {"mergeInner", "concatInner", "switchInner"} -> SubNext(m, d.down, v)
    [] d.kind = "map" -> MapNext(m, d, v)
    [] d.kind = "filter" -> FilterNext(m, d, v)
    [] d.kind = "take" -> TakeNext(m, d, v)
    [] d.kind = "scan" -> ScanNext(m, d, v)
    [] d.kind = "subscriber" -> SubNext(m, d.down, v)
    [] d.kind = "notifier" -> NotifierNext(m, d, v)
    [] OTHER -> m

DestError(m, d, e) ==
  CASE d.kind = "sink" -> SinkError(m, d, e)
    [] d.kind = "mergeInner" -> MergeInnerError(m, d, e)
    [] d.kind \in {"mergeOuter", "concatOuter", "switchOuter",
                   "concatInner", "switchInner"} -> SubError(m, d.down, e)
    [] d.kind \in {"map", "filter", "take", "scan", "subscriber", "notifier"} ->
         SubError(m, d.down, e)
    [] OTHER -> m

DestComplete(m, d) ==
  CASE d.kind = "sink" -> SinkComplete(m, d)
    [] d.kind = "mergeOuter" -> MergeOuterComplete(m, d)
    [] d.kind = "mergeInner" -> MergeInnerComplete(m, d)
    [] d.kind = "concatOuter" -> ConcatOuterComplete(m, d)
    [] d.kind = "concatInner" -> ConcatInnerComplete(m, d)
    [] d.kind = "switchOuter" -> SwitchOuterComplete(m, d)
    [] d.kind = "switchInner" -> SwitchInnerComplete(m, d)
    [] d.kind \in {"map", "filter", "take", "scan", "subscriber"} -> SubComplete(m, d.down)
    [] OTHER -> m

\* ---------------------------------------------------------------- Observable
Producer(s, sig, role, obeys, k) ==
  [sub |-> s, sig |-> sig, role |-> role, obeys |-> obeys, k |-> k, n |-> 0]

\* Observable.from(iterable): the for-of loop over the iterator
Drain(m, items, i, s, sig) ==
  IF i > Len(items) THEN m
  ELSE IF m.aborted[sig] THEN m
  ELSE Drain(SubNext(m, s, items[i]), items, i + 1, s, sig)

FromIterable(m, items, s, sig) == SubComplete(Drain(m, items, 1, s, sig), s)

\* an operator's subscription procedure: fresh closure variables, then
\* this.subscribe(observer, signal)
OperatorInit(m, obs, s, sig) ==
  LET m1 == [m EXCEPT !.index = 0, !.active = 0, !.outerComplete = FALSE,
                      !.buffer = <<>>, !.innerAbortController = 0]
      kind == CASE obs.kind = "mergeMap" -> "mergeOuter"
                [] obs.kind = "concatMap" -> "concatOuter"
                [] obs.kind = "switchMap" -> "switchOuter"
  IN Subscribe(m1, obs.src, Dest(kind, s, sig, 0), sig)

\* the subscription procedures of map, filter, take and scan
MapInit(m, obs, s, sig) ==
  Subscribe([m EXCEPT !.index = 0], obs.src, Dest("map", s, sig, 0), sig)

FilterInit(m, obs, s, sig) ==
  Subscribe([m EXCEPT !.index = 0], obs.src, Dest("filter", s, sig, obs.pred), sig)

\* count = Math.max(count, 0) holds of every count the model passes
TakeInit(m, obs, s, sig) ==
  Subscribe([m EXCEPT !.i_ = 0], obs.src, Dest("take", s, sig, obs.count), sig)

ScanInit(m, obs, s, sig) ==
  LET m1 == [m EXCEPT !.i_ = 0, !.state = IF obs.hasInit THEN obs.seed ELSE Undefined]
  IN Subscribe(m1, obs.src, Dest("scan", s, sig, IF obs.hasInit THEN 1 ELSE 0), sig)

\* the subscription procedure of takeUntil: the source is given the subscriber
\* itself as its observer
TakeUntilInit(m, obs, s, sig) ==
  LET m1 == NewController(m)
      abortController == Len(m1.aborted)
      m2 == ChainAbort(m1, sig, abortController)
      m3 == Subscribe(m2, obs.src, Dest("subscriber", s, sig, 0), abortController)
  IN Subscribe(m3, obs.notifier, Dest("notifier", s, sig, abortController), sig)

\* the Subject's subscription procedure
SubjectInit(m, s, sig) ==
  AddListener([m EXCEPT !.subscribers = Append(@, s)], sig, Listener("unsubscribe", s, 0))

\* the subscription procedure _init(subscriber, signal)
ObservableInit(m, obs, s, sig) ==
  CASE obs.kind = "producer" ->
         [m EXCEPT !.producers = Append(@, Producer(s, sig, obs.role, obs.obeys, obs.k))]
    [] obs.kind = "promise" ->
         [m EXCEPT !.producers = Append(@, Producer(s, sig, "promise", FALSE, 0))]
    [] obs.kind = "from" -> FromIterable(m, obs.items, s, sig)
    [] obs.kind = "subject" -> SubjectInit(m, s, sig)
    [] obs.kind \in {"mergeMap", "concatMap", "switchMap"} -> OperatorInit(m, obs, s, sig)
    [] obs.kind = "map" -> MapInit(m, obs, s, sig)
    [] obs.kind = "filter" -> FilterInit(m, obs, s, sig)
    [] obs.kind = "take" -> TakeInit(m, obs, s, sig)
    [] obs.kind = "scan" -> ScanInit(m, obs, s, sig)
    [] obs.kind = "takeUntil" -> TakeUntilInit(m, obs, s, sig)
    [] OTHER -> m

\* Observable.subscribe(observer, signal); signal = 0 when none is given
Subscribe(m, obs, d, signal) ==
  LET m1 == NewController(m)
      ac == Len(m1.aborted)
      m2 == IF signal # 0 THEN ChainAbort(m1, signal, ac) ELSE m1
      m3 == [m2 EXCEPT !.closed = Append(@, FALSE), !.dest = Append(@, d),
                       !.ctl = Append(@, ac), !.term = Append(@, "")]
  IN ObservableInit(m3, obs, Len(m3.closed), ac)

\* ---------------------------------------------------------------- Subject
\* for (const subscriber of this._subscribers): the array iterator reads the
\* live array by position
ForOfSubscribers(m, v, i) ==
  IF i > Len(m.subscribers) THEN m
  ELSE ForOfSubscribers(SubNext(m, m.subscribers[i], v), v, i + 1)

\* Subject.next(value)
SubjectNext(m, v) ==
  IF ~m.subjClosed THEN ForOfSubscribers(m, v, 1) ELSE m

\* the terminal event reaches the first subscriber only
ShiftAll_firstOnly(m, ev, e) ==
  IF Len(m.subscribers) > 0
  THEN LET s == Head(m.subscribers)
           m1 == [m EXCEPT !.subscribers = <<>>]
       IN IF ev = "error" THEN SubError(m1, s, e) ELSE SubComplete(m1, s)
  ELSE m

\* while (this._subscribers.length > 0) this._subscribers.shift()!.<ev>(...)
ShiftAll(m, ev, e) ==
  IF Len(m.subscribers) > 0
  THEN LET s == Head(m.subscribers)
           m1 == [m EXCEPT !.subscribers = Tail(@)]
       IN ShiftAll(IF ev = "error" THEN SubError(m1, s, e) ELSE SubComplete(m1, s), ev, e)
  ELSE m

\* Subject.error(err)
SubjectError(m, e) ==
  IF ~m.subjClosed THEN ShiftAll([m EXCEPT !.subjClosed = TRUE], "error", e) ELSE m

\* Subject.complete()
SubjectComplete(m) ==
  IF ~m.subjClosed THEN ShiftAll([m EXCEPT !.subjClosed = TRUE], "complete", 0) ELSE m

\* an Observable built on a hand-written subscription procedure that keeps the
\* subscriber and pushes to it later
ProducerObs(role, obeys, k) == [kind |-> "producer", role |-> role, obeys |-> obeys, k |-> k]

\* a producer that observes its signal stops pushing once it is aborted
MayPush(i) ==
  /\ i \in 1..Len(producers)
  /\ producers[i].obeys => ~aborted[producers[i].sig]

\* ---------------------------------------------------------------- chaining scenario
InitEnv ==
  /\ stack = <<>>
  /\ has = Handlers
  /\ abortOn = {}
  /\ subscribeOn = {}
  /\ input = <<>>

EnvUnchanged == UNCHANGED <<stack, has, abortOn, subscribeOn, input>>

InitChain ==
  /\ Start(Empty)
  /\ InitEnv

\* a caller creates a controller of its own
NewRoot ==
  /\ Len(aborted) < MaxTokens
  /\ Set(NewController(Cur))
  /\ EnvUnchanged

\* an operator creates a controller and chains it under a signal it was given
\* (takeUntil, switchMap)
ChainChild(p) ==
  /\ p \in Tokens
  /\ Len(aborted) < MaxTokens
  /\ LET m1 == NewController(Cur)
     IN Set(ChainAbort(m1, p, Len(m1.aborted)))
  /\ EnvUnchanged

\* source.subscribe(observer, p)
SubscribeUnder(p) ==
  /\ p \in Tokens
  /\ Len(aborted) < MaxTokens
  /\ Set(Subscribe(Cur, ProducerObs("src", FALSE, 0), Dest("sink", 0, p, Len(closed) + 1), p))
  /\ EnvUnchanged

\* the source of a subscription ends it
SrcComplete(i) ==
  /\ MayPush(i)
  /\ producers[i].role = "src"
  /\ Set(SubComplete(Cur, producers[i].sub))
  /\ EnvUnchanged

SrcError(i) ==
  /\ MayPush(i)
  /\ producers[i].role = "src"
  /\ Set(SubError(Cur, producers[i].sub, 1))
  /\ EnvUnchanged

\* the owner of a controller aborts it
AbortCtl(t) ==
  /\ t \in Tokens
  /\ Set(Abort(Cur, t))
  /\ EnvUnchanged

NextChain ==
  \/ NewRoot
  \/ \E p \in Tokens : ChainChild(p)
  \/ \E p \in Tokens : SubscribeUnder(p)
  \/ \E i \in 1..Len(producers) : SrcComplete(i)
  \/ \E i \in 1..Len(producers) : SrcError(i)
  \/ \E t \in Tokens : AbortCtl(t)

SpecChain == InitChain /\ [][NextChain]_vars

\* the signal a controller was chained under (0 when none): its cleanup listener
\* names it and is never removed
ParentOf(t) ==
  IF \E i \in 1..Len(listeners[t]) : listeners[t][i].kind = "unchain"
  THEN (CHOOSE l \in {listeners[t][i] : i \in 1..Len(listeners[t])} : l.kind = "unchain").a
  ELSE 0

RECURSIVE AncestorsOf(_)
AncestorsOf(t) ==
  IF ParentOf(t) = 0 THEN {} ELSE {ParentOf(t)} \cup AncestorsOf(ParentOf(t))

DescendantsOf(t) == {c \in Tokens : t \in AncestorsOf(c)}

\* C2: aborting a token that is not yet aborted leaves every token chained below
\* it (directly or transitively) aborted, each with exactly one abort event, and
\* changes no ancestor; a subscription that ends by itself aborts its own token
\* and changes no ancestor either.
C2_Chaining ==
  [][/\ \A t \in Tokens :
         (~aborted[t] /\ AbortCtl(t)) =>
           /\ \A c \in DescendantsOf(t) \cup {t} : aborted'[c] /\ abortEvents'[c] = 1
           /\ \A a \in AncestorsOf(t) :
                aborted'[a] = aborted[a] /\ abortEvents'[a] = abortEvents[a]
     /\ \A i \in 1..Len(producers) :
         (SrcComplete(i) \/ SrcError(i)) =>
           /\ aborted'[ctl[producers[i].sub]]
           /\ \A a \in AncestorsOf(ctl[producers[i].sub]) :
                aborted'[a] = aborted[a] /\ abortEvents'[a] = abortEvents[a]]_vars

\* ---------------------------------------------------------------- SafeSubscriber, stepwise
\* One SafeSubscriber around a consumer's partial observer.  A call that reaches
\* a handler of the observer leaves that handler executing (a frame on `stack`);
\* while it executes, the handler may itself call next/error/complete on the
\* same subscriber; Return ends the innermost handler and runs the rest of the
\* method that called it.
CallCount == producers[1].n

Called == [producers EXCEPT ![1].n = @ + 1]

MayCall == CallCount < MaxCalls /\ Len(stack) <= MaxDepth

\* SafeSubscriber.next up to the return of _destination.next
CallNext(v) ==
  /\ MayCall
  /\ producers' = Called
  /\ IF ~closed[1] /\ "next" \in has
     THEN /\ log' = Append(log, Event(1, "next", v, Cur, 0))
          /\ stack' = Append(stack, "next")
     ELSE UNCHANGED <<log, stack>>
  /\ UNCHANGED <<aborted, listeners, abortEvents, closed, dest, ctl, term, index, active,
                 outerComplete, buffer, innerAbortController, subscribers, subjClosed,
                 i_, state, has, abortOn, subscribeOn, input>>

\* SafeSubscriber.error up to the return of _destination.error; without an error
\* handler the whole method runs
CallError ==
  /\ MayCall
  /\ IF closed[1]
     THEN /\ producers' = Called
          /\ UNCHANGED <<aborted, listeners, abortEvents, closed, term, log, stack>>
     ELSE LET m1 == [Cur EXCEPT !.producers = Called, !.closed[1] = TRUE,
                                !.term[1] = "error"]
          IN IF "error" \in has
             THEN /\ producers' = Called
                  /\ closed' = m1.closed
                  /\ term' = m1.term
                  /\ log' = Append(log, Event(1, "error", 1, Cur, 0))
                  /\ stack' = Append(stack, "error")
                  /\ UNCHANGED <<aborted, listeners, abortEvents>>
             ELSE LET m2 == Abort(HostReportError(m1, 1), ctl[1])
                  IN /\ producers' = Called
                     /\ closed' = m2.closed
                     /\ term' = m2.term
                     /\ log' = m2.log
                     /\ aborted' = m2.aborted
                     /\ listeners' = m2.listeners
                     /\ abortEvents' = m2.abortEvents
                     /\ UNCHANGED stack
  /\ UNCHANGED <<dest, ctl, index, active, outerComplete, buffer, innerAbortController,
                 subscribers, subjClosed, i_, state,
                 has, abortOn, subscribeOn, input>>

\* SafeSubscriber.complete up to the return of _destination.complete
CallComplete_keepsOpen ==
  /\ MayCall
  /\ producers' = Called
  /\ IF closed[1]
     THEN UNCHANGED <<aborted, listeners, abortEvents, closed, term, log, stack>>
     ELSE IF "complete" \in has
          THEN /\ log' = Append(log, Event(1, "complete", 0, Cur, 0))
               /\ stack' = Append(stack, "complete")
               /\ UNCHANGED <<aborted, listeners, abortEvents, closed, term>>
          ELSE LET m2 == Abort(Cur, ctl[1])
               IN /\ aborted' = m2.aborted
                  /\ listeners' = m2.listeners
                  /\ abortEvents' = m2.abortEvents
                  /\ UNCHANGED <<closed, term, log, stack>>
  /\ UNCHANGED <<dest, ctl, index, active, outerComplete, buffer, innerAbortController,
                 subscribers, subjClosed, i_, state,
                 has, abortOn, subscribeOn, input>>

CallComplete ==
  /\ MayCall
  /\ producers' = Called
  /\ IF closed[1]
     THEN UNCHANGED <<aborted, listeners, abortEvents, closed, term, log, stack>>
     ELSE /\ closed' = [closed EXCEPT ![1] = TRUE]
          /\ term' = [term EXCEPT ![1] = "complete"]
          /\ IF "complete" \in has
             THEN /\ log' = Append(log, Event(1, "complete", 0, Cur, 0))
                  /\ stack' = Append(stack, "complete")
                  /\ UNCHANGED <<aborted, listeners, abortEvents>>
             ELSE LET m2 == Abort(Cur, ctl[1])
                  IN /\ aborted' = m2.aborted
                     /\ listeners' = m2.listeners
                     /\ abortEvents' = m2.abortEvents
                     /\ UNCHANGED <<log, stack>>
  /\ UNCHANGED <<dest, ctl, index, active, outerComplete, buffer, innerAbortController,
                 subscribers, subjClosed, i_, state,
                 has, abortOn, subscribeOn, input>>

\* the innermost handler returns; error and complete go on to
\* this._abortController.abort()
Return ==
  /\ stack # <<>>
  /\ stack' = SubSeq(stack, 1, Len(stack) - 1)
  /\ IF stack[Len(stack)] \in {"error", "complete"}
     THEN LET m2 == Abort(Cur, ctl[1])
          IN /\ aborted' = m2.aborted
             /\ listeners' = m2.listeners
             /\ abortEvents' = m2.abortEvents
     ELSE UNCHANGED <<aborted, listeners, abortEvents>>
  /\ UNCHANGED <<closed, dest, ctl, term, producers, log, index, active, outerComplete,
                 buffer, innerAbortController, subscribers, subjClosed, i_, state,
                 has, abortOn, subscribeOn, input>>

InitSub ==
  /\ Start(Subscribe(Empty, ProducerObs("src", FALSE, 0), Dest("sink", 0, 0, 1), 0))
  /\ stack = <<>>
  /\ has \in SUBSET Handlers
  /\ abortOn = {}
  /\ subscribeOn = {}
  /\ input = <<>>

NextSub ==
  \/ \E v \in 1..2 : CallNext(v)
  \/ CallError
  \/ CallComplete
  \/ Return

SpecSub == InitSub /\ [][NextSub]_vars

\* what consumer k's observer was given, in order
SinkLog(k) == SelectSeq(log, LAMBDA e : e.k = k)

IsTerminal(e) == e.ev \in {"error", "complete"}

\* C1: the wrapped observer is given at most one terminal event and nothing after
\* it, and once the terminal call has returned (no error/complete handler is
\* still executing) the subscriber's controller is aborted.
C1_SingleTermination ==
  /\ \A i \in 1..Len(SinkLog(1)) : IsTerminal(SinkLog(1)[i]) => i = Len(SinkLog(1))
  /\ (closed[1] /\ \A i \in 1..Len(stack) : stack[i] = "next") => aborted[ctl[1]]

\* a terminal event was delivered from inside a next handler, the calls have all
\* returned, and a later call was dropped
C1_Witness ==
  /\ stack = <<>>
  /\ aborted[ctl[1]]
  /\ Len(SinkLog(1)) >= 2
  /\ IsTerminal(SinkLog(1)[Len(SinkLog(1))])
  /\ CallCount > Len(log)

\* ---------------------------------------------------------------- flattening scenarios
\* outer.<operator>(callback).subscribe(observer, caller.signal): controller 1 is
\* the caller's, subscriber 1 wraps the consumer's observer, producer 1 is the
\* outer source; the inner sources the callback returns register after it.
Pipeline(op, obeys) == [kind |-> op, src |-> ProducerObs("outer", obeys, 0)]

InitFlat(op, obeys) ==
  /\ Start(Subscribe(NewController(Empty), Pipeline(op, obeys), Dest("sink", 0, 1, 1), 1))
  /\ InitEnv

RECURSIVE PushedUpTo(_)
PushedUpTo(i) == IF i = 0 THEN 0 ELSE producers[i].n + PushedUpTo(i - 1)

\* the values the producers have pushed so far
TotalPushed == PushedUpTo(Len(producers))

Pushed(i) == [Cur EXCEPT !.producers[i].n = @ + 1]

OuterNext(v) ==
  /\ MayPush(1)
  /\ TotalPushed < MaxPush
  /\ Set(SubNext(Pushed(1), producers[1].sub, v))
  /\ EnvUnchanged

OuterError ==
  /\ MayPush(1)
  /\ Set(SubError(Cur, producers[1].sub, SourceErr))
  /\ EnvUnchanged

OuterComplete ==
  /\ MayPush(1)
  /\ Set(SubComplete(Cur, producers[1].sub))
  /\ EnvUnchanged

InnerNext(i) ==
  /\ MayPush(i)
  /\ producers[i].role = "inner"
  /\ TotalPushed < MaxPush
  /\ Set(SubNext(Pushed(i), producers[i].sub, 10 * producers[i].k + producers[i].n + 1))
  /\ EnvUnchanged

InnerError(i) ==
  /\ MayPush(i)
  /\ producers[i].role = "inner"
  /\ Set(SubError(Cur, producers[i].sub, SourceErr + producers[i].k))
  /\ EnvUnchanged

InnerComplete(i) ==
  /\ MayPush(i)
  /\ producers[i].role = "inner"
  /\ Set(SubComplete(Cur, producers[i].sub))
  /\ EnvUnchanged

\* the caller aborts the controller whose signal it passed to subscribe
CallerAbort ==
  /\ Set(Abort(Cur, 1))
  /\ EnvUnchanged

InitMerge == \E obeys \in BOOLEAN : InitFlat("mergeMap", obeys)

NextMerge ==
  \/ \E v \in 0..3 : OuterNext(v)
  \/ OuterError
  \/ OuterComplete
  \/ \E i \in 1..Len(producers) : InnerNext(i)
  \/ \E i \in 1..Len(producers) : InnerError(i)
  \/ \E i \in 1..Len(producers) : InnerComplete(i)
  \/ CallerAbort

SpecMerge == InitMerge /\ [][NextMerge]_vars

\* in the concatMap and switchMap scenarios every source observes its signal
InitConcat == InitFlat("concatMap", TRUE)

InitSwitch == InitFlat("switchMap", TRUE)

NextSerial ==
  \/ \E v \in {0, 1, 3} : OuterNext(v)
  \/ OuterError
  \/ OuterComplete
  \/ \E i \in 1..Len(producers) : InnerNext(i)
  \/ \E i \in 1..Len(producers) : InnerError(i)
  \/ \E i \in 1..Len(producers) : InnerComplete(i)
  \/ CallerAbort

SpecConcat == InitConcat /\ [][NextSerial]_vars

SpecSwitch == InitSwitch /\ [][NextSerial]_vars

OuterSubs == {s \in Subs : dest[s].kind \in {"mergeOuter", "concatOuter", "switchOuter"}}

InnerSubs == {s \in Subs : dest[s].kind \in {"mergeInner", "concatInner", "switchInner"}}

Count(seq, ev) == Cardinality({i \in 1..Len(seq) : seq[i].ev = ev})

\* an inner subscription is active from its subscribe until it ends or is cancelled
ActiveInners == {s \in InnerSubs : term[s] = "" /\ ~aborted[ctl[s]]}

\* C4: downstream is given complete only when the outer source and every inner
\* have completed, at most once, and it has been given complete whenever they
\* all have completed without an error having reached downstream.
C4_MergeCompletion ==
  LET out == SinkLog(1)
      allDone == /\ \A s \in OuterSubs : term[s] = "complete"
                 /\ \A s \in InnerSubs : term[s] = "complete"
  IN /\ Count(out, "complete") <= 1
     /\ Count(out, "complete") = 1 => allDone
     /\ (allDone /\ Count(out, "error") = 0) => Count(out, "complete") = 1

\* downstream was given complete after the outer source and two inners, one of
\* them a source that pushes later, completed and both inners' values arrived
C4_Witness ==
  /\ dest[2].kind = "mergeOuter"
  /\ Count(SinkLog(1), "complete") = 1
  /\ Count(SinkLog(1), "next") >= 2
  /\ Cardinality(InnerSubs) = 2
  /\ Len(producers) >= 2

\* C5: the step in which the outer source or an inner first errors gives
\* downstream that error, leaves the controllers of the outer subscription and
\* of every inner subscription aborted, and from then on the error is the only
\* one and the last event downstream was given.
C5_MergeError ==
  [][LET first == {s \in OuterSubs \cup InnerSubs : term[s] # "error" /\ term'[s] = "error"}
         before == {s \in OuterSubs \cup InnerSubs : term[s] = "error"}
         out == SelectSeq(log', LAMBDA e : e.k = 1)
     IN /\ (first # {} /\ before = {} /\ Count(SinkLog(1), "error") = 0
              /\ Count(SinkLog(1), "complete") = 0) =>
             /\ Len(out) = Len(SinkLog(1)) + 1
             /\ out[Len(out)].ev = "error"
             /\ \A s \in OuterSubs \cup InnerSubs : aborted'[ctl[s]]
        /\ (first # {} \/ before # {}) =>
             /\ Count(out, "error") = 1
             /\ out[Len(out)].ev = "error"]_vars

\* C6: at most one inner subscription is active, and an inner is subscribed only
\* after every inner subscribed before it has completed.
C6_OneActiveInner ==
  /\ Cardinality(ActiveInners) <= 1
  /\ \A s, r \in InnerSubs : (dest[s].k < dest[r].k /\ term[s] = "") => aborted[ctl[s]]

\* C7: downstream is given the inners' values in the order of the outer values
\* they were made for.
C7_ConcatOrder ==
  LET out == SelectSeq(SinkLog(1), LAMBDA e : e.ev = "next")
  IN \A i, j \in 1..Len(out) : i < j => out[i].v \div 10 <= out[j].v \div 10

\* C8: after every step the controller of each superseded inner subscription
\* (one made for an outer value that is no longer the latest) is aborted, and
\* a value a superseded inner pushes does not reach downstream.
C8_SwitchCancels ==
  [][/\ \A s \in 1..Len(closed') :
          (dest'[s].kind = "switchInner" /\ dest'[s].k < index') => aborted'[ctl'[s]]
     /\ \A i \in 1..Len(producers) :
          (InnerNext(i) /\ producers[i].k < index) => log' = log]_vars

\* C9: the step that gives downstream complete finds the outer source completed
\* and no inner subscription active: every inner has ended or had been cancelled.
C9_SwitchCompletion ==
  [][(Count(SinkLog(1), "complete") = 0
        /\ Count(SelectSeq(log', LAMBDA e : e.k = 1), "complete") >= 1) =>
       /\ \A s \in 1..Len(closed') :
            dest'[s].kind = "switchOuter" => term'[s] = "complete"
       /\ \A s \in 1..Len(closed') :
            dest'[s].kind = "switchInner" =>
              term'[s] # "" \/ (s \in Subs /\ aborted[ctl[s]])]_vars

\* ---------------------------------------------------------------- Observable.from scenario
MaxItems == 2       \* elements of the iterable

\* the caller owns controller 1; its observer's next handler aborts it on the
\* values in abortOn
InitFrom ==
  /\ Start(NewController(Empty))
  /\ stack = <<>>
  /\ has = Handlers
  /\ abortOn \in SUBSET {<<1, v>> : v \in 1..MaxItems}
  /\ subscribeOn = {}
  /\ input = <<>>

\* Observable.from(iterable of 1..n).subscribe(observer, caller.signal)
SubscribeIterable(n) ==
  /\ Len(closed) = 0
  /\ Set(Subscribe(Cur, [kind |-> "from", items |-> [i \in 1..n |-> i]],
                   Dest("sink", 0, 1, 1), 1))
  /\ EnvUnchanged

\* Observable.from(promise).subscribe(observer, caller.signal)
SubscribePromise ==
  /\ Len(closed) = 0
  /\ Set(Subscribe(Cur, [kind |-> "promise"], Dest("sink", 0, 1, 1), 1))
  /\ EnvUnchanged

\* new Observable(init).subscribe(observer, caller.signal), init keeping the
\* subscriber to push to it later
SubscribeProducer(obeys) ==
  /\ Len(closed) = 0
  /\ Set(Subscribe(Cur, ProducerObs("src", obeys, 0), Dest("sink", 0, 1, 1), 1))
  /\ EnvUnchanged

\* the promise fulfils: the first callback given to then
Resolve(i, v) ==
  /\ i \in 1..Len(producers)
  /\ producers[i].role = "promise"
  /\ producers[i].n = 0
  /\ Set(SubComplete(SubNext(Pushed(i), producers[i].sub, v), producers[i].sub))
  /\ EnvUnchanged

\* the promise rejects: the second callback given to then
Reject(i) ==
  /\ i \in 1..Len(producers)
  /\ producers[i].role = "promise"
  /\ producers[i].n = 0
  /\ Set(SubError(Pushed(i), producers[i].sub, SourceErr))
  /\ EnvUnchanged

SrcNext(i) ==
  /\ MayPush(i)
  /\ producers[i].role = "src"
  /\ producers[i].n < MaxItems
  /\ Set(SubNext(Pushed(i), producers[i].sub, producers[i].n + 1))
  /\ EnvUnchanged

NextFrom ==
  \/ \E n \in 0..MaxItems : SubscribeIterable(n)
  \/ SubscribePromise
  \/ \E obeys \in BOOLEAN : SubscribeProducer(obeys)
  \/ \E i \in 1..Len(producers) : Resolve(i, 1)
  \/ \E i \in 1..Len(producers) : Reject(i)
  \/ \E i \in 1..Len(producers) : SrcNext(i)
  \/ \E i \in 1..Len(producers) : SrcComplete(i)
  \/ \E i \in 1..Len(producers) : SrcError(i)
  \/ CallerAbort

SpecFrom == InitFrom /\ [][NextFrom]_vars

\* C3: the observer is given no event once the controller whose signal the
\* caller passed to subscribe is aborted.
C3_NoEventAfterAbort ==
  \A i \in 1..Len(SinkLog(1)) : ~SinkLog(1)[i].late

\* ---------------------------------------------------------------- Subject scenario

\* consumer k subscribes with the signal of a controller of its own; on the
\* values abortOn names its next handler aborts that controller, on the values
\* subscribeOn names it subscribes one more consumer
InitSubject ==
  /\ Start(Empty)
  /\ stack = <<>>
  /\ has = Handlers
  /\ abortOn \in SUBSET {<<k, 1>> : k \in 1..MaxSubs}
  /\ subscribeOn \in SUBSET {<<k, 1>> : k \in 1..MaxSubs}
  /\ input = <<>>

\* subject.subscribe(observer, controller.signal)
SubjSubscribe ==
  /\ Len(closed) < MaxSubs
  /\ Set(SubscribeConsumer(Cur))
  /\ EnvUnchanged

SubjNext(v) ==
  /\ Len(log) < MaxLog
  /\ Set(SubjectNext(Cur, v))
  /\ EnvUnchanged

SubjError ==
  /\ Set(SubjectError(Cur, SourceErr))
  /\ EnvUnchanged

SubjComplete ==
  /\ Set(SubjectComplete(Cur))
  /\ EnvUnchanged

\* consumer k aborts its controller
ConsumerAbort(s) ==
  /\ s \in Subs
  /\ Set(Abort(Cur, dest[s].sig))
  /\ EnvUnchanged

NextSubject ==
  \/ SubjSubscribe
  \/ \E v \in 1..2 : SubjNext(v)
  \/ SubjError
  \/ SubjComplete
  \/ \E s \in Subs : ConsumerAbort(s)

SpecSubject == InitSubject /\ [][NextSubject]_vars

\* the consumers registered with the Subject
RegisteredConsumers == {dest[subscribers[i]].k : i \in 1..Len(subscribers)}

\* C10: Subject.next(v) on a Subject that is not closed gives v exactly once to
\* every subscriber registered when it is called, in registration order.
C10_NextReachesAll ==
  [][\A v \in 1..2 :
       (SubjNext(v) /\ ~subjClosed) =>
         LET given == SelectSeq(SubSeq(log', Len(log) + 1, Len(log')),
                                LAMBDA e : e.k \in RegisteredConsumers)
         IN /\ Len(given) = Len(subscribers)
            /\ \A i \in 1..Len(subscribers) :
                 /\ given[i].k = dest[subscribers[i]].k
                 /\ given[i].ev = "next"
                 /\ given[i].v = v]_vars

\* C11: Subject.next(v) gives v only to the subscribers registered when it is
\* called: a consumer subscribed during the delivery (from inside another
\* consumer's next handler) is not given v.
C11_NoDeliveryToLateSubscriber ==
  [][\A v \in 1..2 :
       SubjNext(v) =>
         \A j \in (Len(log) + 1)..Len(log') : log'[j].k \in RegisteredConsumers]_vars

\* the events a step added to the log
NewEvents == SubSeq(log', Len(log) + 1, Len(log'))

\* C12: Subject.error / Subject.complete on a Subject that is not closed closes
\* it for good and gives the terminal event exactly once to every registered
\* subscriber, in registration order, although giving it aborts that
\* subscriber's controller and so runs its unregister handler; afterwards no
\* subscriber is registered and the subscribers' controllers are aborted.  On a
\* closed Subject next, error and complete give nothing to anyone.
C12_TerminalReachesAll ==
  [][/\ (~subjClosed /\ (SubjError \/ SubjComplete)) =>
          /\ subjClosed'
          /\ subscribers' = <<>>
          /\ Len(NewEvents) = Len(subscribers)
          /\ \A i \in 1..Len(subscribers) :
               /\ NewEvents[i].k = dest[subscribers[i]].k
               /\ NewEvents[i].ev \in {"error", "complete"}
               /\ NewEvents[i].ev = term'[subscribers[i]]
               /\ closed'[subscribers[i]]
               /\ aborted'[ctl[subscribers[i]]]
          /\ \A i, j \in 1..Len(NewEvents) : NewEvents[i].ev = NewEvents[j].ev
     /\ subjClosed => subjClosed'
     /\ (subjClosed /\ (SubjError \/ SubjComplete \/ \E v \in 1..2 : SubjNext(v))) =>
          log' = log]_vars

\* a Subject closed with two registered subscribers: both were given the
\* terminal event, in registration order, and none is registered any more
C12_Witness ==
  /\ subjClosed
  /\ subscribers = <<>>
  /\ \E i \in 1..Len(log) : \E j \in (i + 1)..Len(log) :
       /\ IsTerminal(log[i]) /\ IsTerminal(log[j])
       /\ log[i].k < log[j].k
       /\ \A s \in Subs : dest[s].k \in {log[i].k, log[j].k} => aborted[ctl[s]]

\* ---------------------------------------------------------------- filter / take scenario
\* the finite sequences a run draws its source from
Sources == UNION {[1..n -> 1..MaxValue] : n \in 0..MaxLen}

\* Observable.from(items).filter(v => v % pred === 0).take(count)
TakePipeline(in) ==
  [kind |-> "take", count |-> in.count,
   src |-> [kind |-> "filter", pred |-> in.pred,
            src |-> [kind |-> "from", items |-> in.items]]]

InitTake ==
  /\ Start(Empty)
  /\ stack = <<>>
  /\ has = Handlers
  /\ abortOn = {}
  /\ subscribeOn = {}
  /\ input \in [items : Sources, pred : 1..2, count : 0..MaxCount]

\* pipeline.subscribe(observer)
RunTake ==
  /\ Len(closed) = 0
  /\ Set(Subscribe(Cur, TakePipeline(input), Dest("sink", 0, 0, 1), 0))
  /\ EnvUnchanged

NextTake == RunTake

SpecTake == InitTake /\ [][NextTake]_vars

\* the values consumer k was given, in order
RECURSIVE ValuesOf(_)
ValuesOf(seq) ==
  IF seq = <<>> THEN <<>>
  ELSE IF Head(seq).ev = "next" THEN <<Head(seq).v>> \o ValuesOf(Tail(seq))
  ELSE ValuesOf(Tail(seq))

FirstN(seq, n) == SubSeq(seq, 1, IF n < Len(seq) THEN n ELSE Len(seq))

\* C13: filter(p) followed by take(k), k >= 0, over a finite source gives the
\* first k elements that satisfy p, in order (all of them, then complete, when
\* fewer than k satisfy p), and never more than k values.
C13_FilterTake ==
  Len(closed) > 0 =>
    LET passing == SelectSeq(input.items, LAMBDA v : v % input.pred = 0)
    IN /\ ValuesOf(SinkLog(1)) = FirstN(passing, input.count)
       /\ Len(ValuesOf(SinkLog(1))) <= input.count
       /\ Len(passing) < input.count =>
            /\ log # <<>>
            /\ log[Len(log)].ev = "complete"

\* ---------------------------------------------------------------- scan scenario
Seed == 10          \* the initial value given to scan

\* Observable.from(items).scan((acc, v) => acc + v) or
\* Observable.from(items).scan((acc, v) => acc + v, seed)
ScanPipeline(in) ==
  [kind |-> "scan", hasInit |-> in.hasInit, seed |-> in.seed,
   src |-> [kind |-> "from", items |-> in.items]]

InitScan ==
  /\ Start(Empty)
  /\ stack = <<>>
  /\ has = Handlers
  /\ abortOn = {}
  /\ subscribeOn = {}
  /\ input \in [items : Sources, hasInit : {FALSE}, seed : {0}]
               \cup [items : Sources, hasInit : {TRUE}, seed : {0, Seed}]

\* pipeline.subscribe(observer)
RunScan ==
  /\ Len(closed) = 0
  /\ Set(Subscribe(Cur, ScanPipeline(input), Dest("sink", 0, 0, 1), 0))
  /\ EnvUnchanged

NextScan == RunScan

SpecScan == InitScan /\ [][NextScan]_vars

\* the running sums of items from acc on
RECURSIVE RunningSums(_, _)
RunningSums(items, acc) ==
  IF items = <<>> THEN <<>>
  ELSE <<acc + Head(items)>> \o RunningSums(Tail(items), acc + Head(items))

\* C14: scan over x1..xn gives exactly n values.  Without an initial value the
\* first one is x1 itself (the accumulator is not called for it and x1 becomes
\* the state) and each later one is accumulator(state, xi); with an initial
\* value each one is accumulator(state, xi) starting from that value.
C14_ScanValues ==
  Len(closed) > 0 =>
    /\ Len(ValuesOf(SinkLog(1))) = Len(input.items)
    /\ ValuesOf(SinkLog(1)) = RunningSums(input.items, IF input.hasInit THEN input.seed ELSE 0)

\* ---------------------------------------------------------------- takeUntil scenario
\* source.takeUntil(notifier): the source is Observable.of(1) or a source that
\* pushes later, the notifier pushes later
UntilPipeline(in) ==
  [kind |-> "takeUntil",
   src |-> IF in.sync THEN [kind |-> "from", items |-> <<1>>]
           ELSE ProducerObs("src", in.obeys, 0),
   notifier |-> ProducerObs("notifier", in.obeys, 0)]

\* the caller owns controller 1
InitUntil ==
  /\ Start(NewController(Empty))
  /\ stack = <<>>
  /\ has = Handlers
  /\ abortOn \in SUBSET {<<1, 1>>}
  /\ subscribeOn = {}
  /\ input \in [sync : BOOLEAN, obeys : BOOLEAN]

\* pipeline.subscribe(observer, caller.signal)
RunUntil ==
  /\ Len(closed) = 0
  /\ Set(Subscribe(Cur, UntilPipeline(input), Dest("sink", 0, 1, 1), 1))
  /\ EnvUnchanged

NotifierValue(i) ==
  /\ MayPush(i)
  /\ producers[i].role = "notifier"
  /\ producers[i].n < MaxItems
  /\ Set(SubNext(Pushed(i), producers[i].sub, producers[i].n + 1))
  /\ EnvUnchanged

NotifierError(i) ==
  /\ MayPush(i)
  /\ producers[i].role = "notifier"
  /\ Set(SubError(Cur, producers[i].sub, SourceErr))
  /\ EnvUnchanged

NotifierComplete(i) ==
  /\ MayPush(i)
  /\ producers[i].role = "notifier"
  /\ Set(SubComplete(Cur, producers[i].sub))
  /\ EnvUnchanged

NextUntil ==
  \/ RunUntil
  \/ \E i \in 1..Len(producers) : SrcNext(i)
  \/ \E i \in 1..Len(producers) : SrcComplete(i)
  \/ \E i \in 1..Len(producers) : SrcError(i)
  \/ \E i \in 1..Len(producers) : NotifierValue(i)
  \/ \E i \in 1..Len(producers) : NotifierError(i)
  \/ \E i \in 1..Len(producers) : NotifierComplete(i)
  \/ Len(closed) > 0 /\ CallerAbort

SpecUntil == InitUntil /\ [][NextUntil]_vars

\* the subscriptions takeUntil makes to its source and to its notifier
UntilSourceSubs == {s \in Subs : dest[s].kind = "subscriber"}
UntilNotifierSubs == {s \in Subs : dest[s].kind = "notifier"}

\* C15: under takeUntil the notifier's first value completes the downstream
\* observer (its first error errors it) and nothing is given to it afterwards;
\* and whenever the downstream subscription has ended, whatever ended it
\* (notifier value or error, source completion or error, also a source that
\* completes during subscription, or the caller's abort), the controllers of
\* the source subscription and of the notifier subscription are both aborted.
C15_TakeUntilEnds ==
  Len(closed) > 0 =>
    /\ \A i \in 1..Len(producers) :
         (/\ producers[i].role = "notifier"
          /\ producers[i].n > 0
          /\ term[producers[i].sub] = "") => closed[1]
    /\ \A i \in 1..Len(SinkLog(1)) : IsTerminal(SinkLog(1)[i]) => i = Len(SinkLog(1))
    /\ (closed[1] \/ aborted[ctl[1]]) =>
         /\ \A s \in UntilSourceSubs : aborted[ctl[s]]
         /\ \A s \in UntilNotifierSubs : aborted[ctl[s]]

\* C16: Observable.from over an iterable pushes the elements in iteration
\* order, pulls no further element once the subscription's controller is
\* aborted, and gives complete only if the iteration was exhausted without the
\* controller having been aborted: a subscription cancelled during the drain
\* is not given complete.
C16_FromIterable ==
  (Len(closed) = 1 /\ Len(producers) = 0) =>
    /\ \A i \in 1..Len(ValuesOf(SinkLog(1))) : ValuesOf(SinkLog(1))[i] = i
    /\ \A i \in 1..Len(SinkLog(1)) :
         SinkLog(1)[i].ev \in {"next", "complete"} => ~SinkLog(1)[i].late

\* ---------------------------------------------------------------- throwing callbacks
Operators == {"map", "filter", "scan", "mergeMap", "concatMap", "switchMap"}

\* source.<operator>(callback), the callback throwing for the value ThrowVal
ThrowPipeline(op, obeys) ==
  [kind |-> op, src |-> ProducerObs("outer", obeys, 0), pred |-> 1,
   hasInit |-> TRUE, seed |-> Seed]

InitThrow ==
  /\ \E op \in Operators : \E obeys \in BOOLEAN :
       Start(Subscribe(NewController(Empty), ThrowPipeline(op, obeys), Dest("sink", 0, 1, 1), 1))
  /\ InitEnv

NextThrow == NextMerge

SpecThrow == InitThrow /\ [][NextThrow]_vars

\* the callback has thrown and the observer was given its exception
Thrown == \E j \in 1..Len(log) : log[j].ev = "error" /\ log[j].v = CallbackErr

\* C17: when the callback of map, filter, scan, mergeMap, concatMap or
\* switchMap throws for a source value (the pipeline being live), the observer
\* is given exactly one error carrying the exception and nothing after it, the
\* controller of the source subscription is aborted, and the callback is not
\* called for any later source value.
C17_CallbackThrows ==
  [][/\ (OuterNext(ThrowVal) /\ ~closed[1] /\ ~aborted[1]) =>
          /\ log' = Append(log, [k |-> 1, ev |-> "error", v |-> CallbackErr, late |-> FALSE])
          /\ closed'[1]
          /\ aborted'[ctl[producers[1].sub]]
     /\ Thrown => (log' = log /\ index' = index /\ i_' = i_)]_vars

\* the controllers that belong to a subscription
SubscriptionTokens == {ctl[s] : s \in Subs}

\* C18: a chained child controller whose subscription has terminated has had
\* its abort-propagation listener removed from its parent, so the listeners on
\* a live parent do not grow with finished children: every such listener on a
\* live signal belongs to a child that is not aborted and whose subscription
\* has not terminated; for the per-inner controllers of switchMap, to the
\* controller of the inner that is current.
C18_ListenersRemoved ==
  \A p \in Tokens : ~aborted[p] =>
    \A j \in 1..Len(listeners[p]) :
      LET l == listeners[p][j]
      IN l.kind = "abortChild" =>
           /\ ~aborted[l.a]
           /\ \A s \in Subs : ctl[s] = l.a => term[s] = ""
           /\ l.a \notin SubscriptionTokens => l.a = innerAbortController

\* C19: whenever no call is in progress, a child controller chained under an
\* aborted parent is itself aborted, also when it was chained after the parent
\* had been aborted: subscribing with an already-aborted signal gives a
\* subscription whose fresh controller is aborted.
C19_ChildOfAbortedIsAborted ==
  \A c \in Tokens : (ParentOf(c) # 0 /\ aborted[ParentOf(c)]) => aborted[c]

\* C20: concatMap loses no inner value on normal completion: the observer is
\* given complete (no error having occurred, nothing having been cancelled)
\* only after the outer source has completed and the inner made for every outer
\* value has completed; the outer completing while an inner is still active
\* does not complete the observer.
C20_ConcatCompletesLast ==
  \A j \in 1..Len(log) :
    (log[j].ev = "complete" /\ ~log[j].late) =>
      /\ \A s \in OuterSubs : term[s] = "complete"
      /\ \A s \in InnerSubs : term[s] = "complete"
      /\ buffer = <<>>

====
